---- MODULE Spec2Model ----
(***************************************************************************)
(* State-machine model of the HarSaRK multicore kernel core: the           *)
(* per-core Scheduler (TaskManager / TaskManager_C1), the per-core         *)
(* priority-ceiling stack (PiStackGlobal / PiStackGlobal_C1), Resource,    *)
(* Semaphore and the cross-core Shared wrapper.                            *)
(*                                                                         *)
(* A BooleanVector is modelled as the set of the indices of its set bits:  *)
(* a | b is union, a & !b is set difference, (m & (1 << t)) != 0 is        *)
(* membership.  Task ids stay below the vector's width, so no shift        *)
(* overflows.                                                              *)
(*                                                                         *)
(* Every kernel call runs inside critical_section, and the context switch  *)
(* that schedule() requests (PendSV, or SVC then PendSV) is taken when the *)
(* critical section ends: on one core a call and its context switch are    *)
(* one step.  Across cores the steps of Shared::lock and Shared::unlock    *)
(* are separate, one per access to the atomics.                            *)
(***************************************************************************)
EXTENDS Integers, Sequences, FiniteSets, TLC

\* Highest task priority of the model; task ids are 0..MaxTask, 0 is idle.
MaxTask == 3

\* Depth of a PiStack (crate::config::MAX_RESOURCES).
MAX_RESOURCES == 2

Tasks == 0..MaxTask
UserTasks == 1..MaxTask
Cores == {0, 1}

\* Width in bits of Scheduler.preempt_disable_count, an unsigned integer.
CountBits == 2

CountMod == 2 ^ CountBits

\* Deepest nesting of disable_preemption sections a task enters.
MaxNest == 3

\* Highest priority of the tasks created on each core of the two-core system.
MaxSharedTask == 1

\* Deepest nesting of disable_preemption sections on the two-core system.
MaxSharedNest == 1

SharedTasks == 0..MaxSharedTask

\* Resource objects declared on core 0 (bound to TaskManager, PiStackGlobal).
Res == {"R1", "R2"}

\* The SharedResource objects.
Shareds == {"SR", "SR2"}

\* The SharedResource of the specifications with one SharedResource.
SingleShared == {"SR"}

\* The semaphore of core 0.
Sems == {"S1"}

\* get_msb_const: index of the most significant set bit, 0 for the empty vector.
Msb(mask) == IF mask = {} THEN 0 ELSE CHOOSE t \in mask : \A u \in mask : u <= t

VARIABLES
    task_manager,   \* [Cores -> Scheduler]: TaskManager, TaskManager_C1
    pi_stack,       \* [Cores -> PiStack]: PiStackGlobal, PiStackGlobal_C1
    tasks_mask,     \* Resource.tasks_mask, fixed at Resource::new
    blocked_mask,   \* Resource.blocked_mask
    resources_list, \* kernel/resource.rs: the static ResourceManager, the fields
                    \* create() uses: resources_block and curr
    flags,          \* Semaphore.flags
    sem_tasks,      \* Semaphore.tasks, fixed at Semaphore::new
    held,           \* per core and task: the acquire calls and disable_preemption
                    \* sections in progress, outermost first
    signalled,      \* per semaphore: the tasks notified since their last test_and_reset
    tasks_mask0,    \* SharedResource.tasks_mask0
    tasks_mask1,    \* SharedResource.tasks_mask1
    lock_ref,       \* SharedResource.lock, the atomic the two views share
    curr_tid_ref,   \* SharedResource.curr_tid
    TASKMANAGER_LOCK, \* the spinlock over both Schedulers
    exited,         \* per core: the tasks that have called task_exit
    ev              \* the last kernel call: who called what, and what it returned

resVars == <<tasks_mask, blocked_mask, resources_list>>

semVars == <<flags, sem_tasks, signalled>>

sharedVars == <<tasks_mask0, tasks_mask1, lock_ref, curr_tid_ref, TASKMANAGER_LOCK>>

vars == <<task_manager, pi_stack, resVars, semVars, sharedVars, held, exited, ev>>

\* Scheduler after init(true) and create_task for every user task.
SchedulerInit ==
    [ curr_tid |-> 0,
      is_preemptive |-> TRUE,
      preempt_disable_count |-> 0,
      active_tasks |-> Tasks,
      blocked_tasks |-> {},
      released_tasks |-> {},
      migrated_tasks |-> {},
      migrated_tid |-> 0 ]

\* PiStack::new: an empty stack, system_ceiling at the "none" sentinel.
PiStackNew == [ stack |-> <<>>, system_ceiling |-> -1 ]

\* Resource::new: the idle/privileged bit is forced on.
ResourceNewMask(mask) == mask \cup {0}

\* Resource.ceiling = get_msb_const(tasks_mask)
CeilingOf(mask) == Msb(mask)

Ceiling(r) == CeilingOf(tasks_mask[r])

\* The last kernel call: the call, the core and running task it was made on, the
\* object, the value returned and, for calls that take a mask or request
\* something of the hardware, that set.
EventArg(op, c, tid, r, ret, arg) ==
    [ op |-> op, core |-> c, tid |-> tid, res |-> r, ret |-> ret, arg |-> arg ]

Event(op, c, tid, r, ret) == EventArg(op, c, tid, r, ret, {})

\* ResourceControlBlock::new
ResourceControlBlockNew == [ rt_ceiling |-> 0, tasks_mask |-> {} ]

\* ResourceManager::new, the fields create() uses.
ResourceManagerNew ==
    [ resources_block |-> [i \in 0..(MAX_RESOURCES - 1) |-> ResourceControlBlockNew],
      curr |-> 0 ]

\* The statics before any call.
InitKernel ==
    /\ exited = [c \in Cores |-> {}]
    /\ resources_list = ResourceManagerNew
    /\ pi_stack = [c \in Cores |-> PiStackNew]
    /\ blocked_mask = [r \in Res |-> {}]
    /\ flags = [s \in Sems |-> {}]
    /\ held = [c \in Cores |-> [t \in Tasks |-> <<>>]]
    /\ signalled = [s \in Sems |-> {}]
    /\ lock_ref = [s \in Shareds |-> FALSE]
    /\ curr_tid_ref = [s \in Shareds |-> 0]
    /\ TASKMANAGER_LOCK = FALSE
    /\ ev = Event("init", 0, 0, "none", "Ok")

NoShared ==
    /\ tasks_mask0 = [s \in Shareds |-> {}]
    /\ tasks_mask1 = [s \in Shareds |-> {}]

\* One core: init, create_task for every user task, two Resources of any masks.
\* The two resources are interchangeable: R1 names the one whose ceiling is not
\* the lower.
Init ==
    /\ InitKernel
    /\ task_manager = [c \in Cores |-> SchedulerInit]
    /\ NoShared
    /\ tasks_mask \in [Res -> {ResourceNewMask(m) : m \in SUBSET UserTasks}]
    /\ CeilingOf(tasks_mask["R1"]) >= CeilingOf(tasks_mask["R2"])
    /\ sem_tasks = [s \in Sems |-> {}]

----------------------------------------------------------------------------
(* Scheduler *)

\* Selection rule run by the context-switch handler that schedule() requests.
ReadyTasks(tm) == (tm.active_tasks \ tm.blocked_tasks) \cap tm.released_tasks

SelectNext(tm) == [tm EXCEPT !.curr_tid = Msb(ReadyTasks(tm))]

ScheduleInverted(tm) == IF ~tm.is_preemptive THEN SelectNext(tm) ELSE tm

ScheduleNever(tm) == tm

ScheduleUngated(tm) == SelectNext(tm)

\* schedule(): requests a context switch only while is_preemptive.
Schedule(tm) == IF tm.is_preemptive THEN SelectNext(tm) ELSE tm

\* Scheduler::block_tasks / unblock_tasks / release
BlockTasks(tm, mask) == [tm EXCEPT !.blocked_tasks = @ \cup mask]

UnblockTasks(tm, mask) == [tm EXCEPT !.blocked_tasks = @ \ mask]

ReleaseTasks(tm, mask) == [tm EXCEPT !.released_tasks = @ \cup mask]

\* task_exit(): clears the active bit of curr_tid.
ExitCurrent(tm) == [tm EXCEPT !.active_tasks = @ \ {tm.curr_tid}]

\* spinlock(&TASKMANAGER_LOCK) returns once the lock is free; the kernel calls
\* that take it (schedule, block_tasks, unblock_tasks, task_exit) release it
\* before they return.
TmFree == ~TASKMANAGER_LOCK

\* The running task of core c is in its own code: in no Shared::lock or
\* Shared::unlock call.
InUserCode(c) ==
    IF held[c][task_manager[c].curr_tid] = <<>>
    THEN TRUE
    ELSE held[c][task_manager[c].curr_tid][Len(held[c][task_manager[c].curr_tid])].pc = "handler"

\* The running task of core c is inside a critical_section of Shared::lock:
\* interrupts are off on c, nothing is released and nothing preempts.
InCriticalSection(c) ==
    IF held[c][task_manager[c].curr_tid] = <<>>
    THEN FALSE
    ELSE held[c][task_manager[c].curr_tid][Len(held[c][task_manager[c].curr_tid])].pc
            \in {"migrate", "resched", "store_tid"}

\* release(tasks_mask); schedule()
Release(c, mask) ==
    /\ TmFree
    /\ ~InCriticalSection(c)
    /\ task_manager' = [task_manager EXCEPT ![c] = Schedule(ReleaseTasks(@, mask))]
    /\ ev' = Event("release", c, task_manager[c].curr_tid, "none", "Ok")
    /\ UNCHANGED <<exited, pi_stack, resVars, semVars, sharedVars, held>>

\* task_exit(), whatever task runs: the active bit of curr_tid is cleared under
\* TASKMANAGER_LOCK, then schedule().
TaskExitCall(c) ==
    /\ TmFree
    /\ held[c][task_manager[c].curr_tid] = <<>>
    /\ task_manager' = [task_manager EXCEPT ![c] = Schedule(ExitCurrent(@))]
    /\ exited' = [exited EXCEPT ![c] = @ \cup {task_manager[c].curr_tid}]
    /\ ev' = Event("task_exit", c, task_manager[c].curr_tid, "none", "Ok")
    /\ UNCHANGED <<pi_stack, resVars, semVars, sharedVars, held>>

\* task_exit(); a task returns from its body outside every acquire handler. The
\* idle task has no end.
TaskExit(c) ==
    /\ task_manager[c].curr_tid # 0
    /\ TaskExitCall(c)

----------------------------------------------------------------------------
(* PiStack *)

PushStack(ps, ceiling) ==
    [ stack |-> Append(ps.stack, ps.system_ceiling), system_ceiling |-> ceiling ]

PopStack(ps) ==
    [ stack |-> SubSeq(ps.stack, 1, Len(ps.stack) - 1),
      system_ceiling |-> ps.stack[Len(ps.stack)] ]

----------------------------------------------------------------------------
(* Resource: mask is the Resource's tasks_mask, c the core whose Scheduler and *)
(* PiStack it was constructed with                                            *)

HasAccessAlways(mask, tid) == TRUE

\* lock(): self.tasks_mask & pid_mask != pid_mask  ->  AccessDenied
HasAccess(mask, tid) == tid \in mask

CeilingAllowsGe(ceiling, system_ceiling) == ceiling >= system_ceiling

CeilingAllowsAlways(ceiling, system_ceiling) == TRUE

\* lock(): ceiling as i32 > pi_stack.system_ceiling
CeilingAllows(ceiling, system_ceiling) == ceiling > system_ceiling

\* lock(): *blocked_mask = tasks_mask & !blocked_tasks
NewBlockedMask(mask, blocked) == mask \ blocked

LockBlockSetWithCaller(mask, tid) == mask

\* lock(): block_tasks(!(1 << curr_tid) & tasks_mask)
LockBlockSet(mask, tid) == mask \ {tid}

\* What Resource::lock returns.
LockResult(c, mask) ==
    IF ~HasAccess(mask, task_manager[c].curr_tid) THEN "AccessDenied"
    ELSE IF ~CeilingAllows(CeilingOf(mask), pi_stack[c].system_ceiling) THEN "AccessDenied"
    ELSE IF Len(pi_stack[c].stack) >= MAX_RESOURCES THEN "LimitExceeded"
    ELSE "Ok"

\* Resource::lock, the Scheduler and PiStack after it; the new blocked_mask is
\* NewBlockedMask(mask, blocked_tasks before the call).
ResourceLock(c, mask) ==
    IF LockResult(c, mask) = "Ok"
    THEN /\ pi_stack' = [pi_stack EXCEPT ![c] = PushStack(@, CeilingOf(mask))]
         /\ task_manager' = [task_manager EXCEPT ![c] =
                BlockTasks(@, LockBlockSet(mask, task_manager[c].curr_tid))]
    ELSE UNCHANGED <<pi_stack, task_manager>>

\* unlock(): self.ceiling as i32 == pi_stack.system_ceiling, read from PiStackGlobal
UnlockMatches(mask) == CeilingOf(mask) = pi_stack[0].system_ceiling

\* What Resource::unlock returns: Ok(()) on both branches.
UnlockResult(mask) == "Ok"

\* Resource::unlock with blocked_mask bm: the stack popped is PiStackGlobal, the
\* Scheduler unblocked and rescheduled is the Resource's own.
ResourceUnlock(c, mask, bm) ==
    IF UnlockMatches(mask)
    THEN /\ pi_stack' = [pi_stack EXCEPT ![0] = PopStack(@)]
         /\ task_manager' = [task_manager EXCEPT ![c] = Schedule(UnblockTasks(@, bm))]
    ELSE UNCHANGED <<pi_stack, task_manager>>

\* The state of core c that a lock/unlock pair is to give back.
Snapshot(c) ==
    [ system_ceiling |-> pi_stack[c].system_ceiling,
      depth |-> Len(pi_stack[c].stack),
      blocked_tasks |-> task_manager[c].blocked_tasks ]

\* An acquire call in progress: the resource, the position in the call, the
\* blocked_mask of a Resource built for the call, the state before lock().
Frame(r, pc, bm, pre) == [ res |-> r, pc |-> pc, bm |-> bm, pre |-> pre ]

Top(c, tid) == held[c][tid][Len(held[c][tid])]

Push(c, tid, f) == [held EXCEPT ![c][tid] = Append(@, f)]

Pop(c, tid) == [held EXCEPT ![c][tid] = SubSeq(@, 1, Len(@) - 1)]

\* Resource::acquire, first half: lock()?, then the handler starts.
Acquire(c, r) ==
    LET tid == task_manager[c].curr_tid
        ret == LockResult(c, tasks_mask[r]) IN
    /\ InUserCode(c)
    /\ ret = "Ok" => TmFree
    /\ ResourceLock(c, tasks_mask[r])
    /\ ev' = Event("lock", c, tid, r, ret)
    /\ IF ret = "Ok"
       THEN /\ blocked_mask' = [blocked_mask EXCEPT ![r] =
                   NewBlockedMask(tasks_mask[r], task_manager[c].blocked_tasks)]
            /\ held' = Push(c, tid, Frame(r, "handler", {}, Snapshot(c)))
       ELSE UNCHANGED <<blocked_mask, held>>
    /\ UNCHANGED <<exited, tasks_mask, resources_list, semVars, sharedVars>>

\* Resource::acquire, second half: the handler returns, unlock()?.
HandlerReturn(c) ==
    LET tid == task_manager[c].curr_tid IN
    /\ held[c][tid] # <<>>
    /\ Top(c, tid).res \in Res
    /\ UnlockMatches(tasks_mask[Top(c, tid).res]) => TmFree
    /\ ResourceUnlock(c, tasks_mask[Top(c, tid).res], blocked_mask[Top(c, tid).res])
    /\ ev' = Event("unlock", c, tid, Top(c, tid).res, UnlockResult(tasks_mask[Top(c, tid).res]))
    /\ held' = Pop(c, tid)
    /\ UNCHANGED <<exited, resVars, semVars, sharedVars>>

----------------------------------------------------------------------------
(* One core, every Resource used through acquire *)

Next ==
    \/ \E mask \in (SUBSET UserTasks) \ {{}} : Release(0, mask)
    \/ TaskExit(0)
    \/ \E r \in Res : Acquire(0, r)
    \/ HandlerReturn(0)

Spec == Init /\ [][Next]_vars

\* The handler of an acquire nested d deep returns.
HandlerReturnAt(c, d) ==
    /\ Len(held[c][task_manager[c].curr_tid]) = d
    /\ HandlerReturn(c)

\* Handlers are total and task bodies end: a handler that can return again and
\* again does return, and a task that can exit again and again does exit.
FairSpec ==
    /\ Spec
    /\ \A d \in 1..MAX_RESOURCES : SF_vars(HandlerReturnAt(0, d))
    /\ SF_vars(TaskExit(0))

----------------------------------------------------------------------------
(* One core, Resource::lock and Resource::unlock called directly, in any order *)

\* Resource::lock called outside acquire.
LockCall(c, r) ==
    LET tid == task_manager[c].curr_tid
        ret == LockResult(c, tasks_mask[r]) IN
    /\ InUserCode(c)
    /\ ret = "Ok" => TmFree
    /\ ResourceLock(c, tasks_mask[r])
    /\ ev' = Event("lock", c, tid, r, ret)
    /\ blocked_mask' = IF ret = "Ok"
                       THEN [blocked_mask EXCEPT ![r] =
                               NewBlockedMask(tasks_mask[r], task_manager[c].blocked_tasks)]
                       ELSE blocked_mask
    /\ UNCHANGED <<exited, tasks_mask, resources_list, semVars, sharedVars, held>>

\* Resource::unlock called outside acquire, whatever is locked.
UnlockCall(c, r) ==
    /\ UnlockMatches(tasks_mask[r]) => TmFree
    /\ ResourceUnlock(c, tasks_mask[r], blocked_mask[r])
    /\ ev' = Event("unlock", c, task_manager[c].curr_tid, r, UnlockResult(tasks_mask[r]))
    /\ UNCHANGED <<exited, resVars, semVars, sharedVars, held>>

NextAPI ==
    \/ \E mask \in (SUBSET UserTasks) \ {{}} : Release(0, mask)
    \/ TaskExit(0)
    \/ \E r \in Res : LockCall(0, r)
    \/ \E r \in Res : UnlockCall(0, r)

SpecAPI == Init /\ [][NextAPI]_vars

----------------------------------------------------------------------------
(* Semaphore *)

\* test_and_reset(): *flags & curr_tid_mask == curr_tid_mask
TestFlag(fl, tid) == tid \in fl

ResetFlagAll(fl, tid) == {}

\* test_and_reset(): *flags &= !curr_tid_mask
ResetFlag(fl, tid) == fl \ {tid}

\* signal_and_release(): *flags |= tasks_mask
SignalFlags(fl, mask) == fl \cup mask

SignalReleaseMaskNotify(tasks, mask) == mask

\* signal_and_release(): release(self.task_manager, self.tasks)
SignalReleaseMask(tasks, mask) == tasks

\* signal_and_release(tasks_mask): set the flags, release(self.tasks), schedule().
SignalAndRelease(c, s, mask) ==
    /\ TmFree
    /\ flags' = [flags EXCEPT ![s] = SignalFlags(@, mask)]
    /\ task_manager' = [task_manager EXCEPT ![c] =
            Schedule(Schedule(ReleaseTasks(@, SignalReleaseMask(sem_tasks[s], mask))))]
    /\ signalled' = [signalled EXCEPT ![s] = @ \cup mask]
    /\ ev' = EventArg("signal", c, task_manager[c].curr_tid, s, "Ok", mask)
    /\ UNCHANGED <<exited, pi_stack, resVars, sem_tasks, sharedVars, held>>

\* test_and_reset() by the running task.
TestAndReset(c, s) ==
    LET tid == task_manager[c].curr_tid IN
    /\ flags' = [flags EXCEPT ![s] = IF TestFlag(@, tid) THEN ResetFlag(@, tid) ELSE @]
    /\ signalled' = [signalled EXCEPT ![s] = @ \ {tid}]
    /\ ev' = Event("test", c, tid, s, IF TestFlag(flags[s], tid) THEN "true" ELSE "false")
    /\ UNCHANGED <<exited, task_manager, pi_stack, resVars, sem_tasks, sharedVars, held>>

InitSem ==
    /\ InitKernel
    /\ task_manager = [c \in Cores |-> SchedulerInit]
    /\ NoShared
    /\ tasks_mask = [r \in Res |-> ResourceNewMask({})]
    /\ sem_tasks \in [Sems -> SUBSET UserTasks]

NextSem ==
    \/ \E mask \in (SUBSET UserTasks) \ {{}} : Release(0, mask)
    \/ TaskExit(0)
    \/ \E s \in Sems : \E mask \in SUBSET Tasks : SignalAndRelease(0, s, mask)
    \/ \E s \in Sems : TestAndReset(0, s)

SpecSem == InitSem /\ [][NextSem]_vars

----------------------------------------------------------------------------
(* Shared: the view of SharedResource s built by core0() / core1(), used through *)
(* Shared::acquire by the running task of core c                                 *)

OtherCore(c) == 1 - c

\* core0(): Resource::new(&TaskManager, &PiStackGlobal, .., tasks_mask0)
\* core1(): Resource::new(&TaskManager_C1, &PiStackGlobal_C1, .., tasks_mask1)
ViewMask(s, c) == ResourceNewMask(IF c = 0 THEN tasks_mask0[s] ELSE tasks_mask1[s])

\* other_resource_taskmask: core0() passes tasks_mask1, and so does core1().
OtherResourceTaskmask(s, c) == tasks_mask1[s]

CasSucceedsAlways(lock) == TRUE

\* compare_exchange(false, true, SeqCst, SeqCst) succeeds on false.
CasSucceeds(lock) == lock = FALSE

SetPc(c, tid, pc) == [held EXCEPT ![c][tid][Len(held[c][tid])].pc = pc]

\* The running task of core c is inside Shared::lock / Shared::unlock at pc.
At(c, pc) ==
    /\ held[c][task_manager[c].curr_tid] # <<>>
    /\ Top(c, task_manager[c].curr_tid).res \in Shareds
    /\ Top(c, task_manager[c].curr_tid).pc = pc

\* Shared::lock, line 41: self.resource.lock()? on a Resource built for the call.
SharedLockResource(c, s) ==
    LET tid == task_manager[c].curr_tid
        ret == LockResult(c, ViewMask(s, c)) IN
    /\ InUserCode(c)
    /\ ret = "Ok" => TmFree
    /\ ResourceLock(c, ViewMask(s, c))
    /\ ev' = Event("lock", c, tid, s, ret)
    /\ held' = IF ret = "Ok"
               THEN Push(c, tid, Frame(s, "cas",
                        NewBlockedMask(ViewMask(s, c), task_manager[c].blocked_tasks),
                        Snapshot(c)))
               ELSE held
    /\ UNCHANGED <<exited, resVars, semVars, sharedVars>>

\* Shared::lock, the loop condition: one compare_exchange on the shared atomic.
SharedCas(c) ==
    LET tid == task_manager[c].curr_tid
        s == Top(c, tid).res IN
    /\ At(c, "cas")
    /\ IF CasSucceeds(lock_ref[s])
       THEN /\ lock_ref' = [lock_ref EXCEPT ![s] = TRUE]
            /\ held' = SetPc(c, tid, "store_lock")
       ELSE /\ held' = SetPc(c, tid, "spin")
            /\ UNCHANGED lock_ref
    /\ UNCHANGED <<exited, task_manager, pi_stack, resVars, semVars, tasks_mask0, tasks_mask1,
                   curr_tid_ref, TASKMANAGER_LOCK, ev>>

\* Shared::lock, the loop body: spinlock_try(&TASKMANAGER_LOCK).
SharedSpinTry(c) ==
    LET tid == task_manager[c].curr_tid IN
    /\ At(c, "spin")
    /\ IF CasSucceeds(TASKMANAGER_LOCK)
       THEN /\ TASKMANAGER_LOCK' = TRUE
            /\ held' = SetPc(c, tid, "migrate")
       ELSE /\ held' = SetPc(c, tid, "cas")
            /\ UNCHANGED TASKMANAGER_LOCK
    /\ UNCHANGED <<exited, task_manager, pi_stack, resVars, semVars, tasks_mask0, tasks_mask1,
                   lock_ref, curr_tid_ref, ev>>

\* The migration test: (1 << oc_crr_tid) & other_resource_taskmask == 0
PeerPreempted(s, c) ==
    task_manager[OtherCore(c)].curr_tid \notin OtherResourceTaskmask(s, c)

\* The Schedulers after the migration step taken by core c for tid migrated_tid.
Migrate(c, migrated_tid) ==
    [task_manager EXCEPT ![OtherCore(c)].migrated_tasks = @ \cup {migrated_tid},
                         ![c].migrated_tid = migrated_tid]

SpinUnlockKept(lock) == lock

\* spinunlock: lock.store(false)
SpinUnlock(lock) == FALSE

\* Shared::lock, the loop body under TASKMANAGER_LOCK: read the peer's curr_tid,
\* migrate when it is not in other_resource_taskmask, spinunlock.
SharedSpinBody(c) ==
    LET tid == task_manager[c].curr_tid
        s == Top(c, tid).res IN
    /\ At(c, "migrate")
    /\ TASKMANAGER_LOCK' = SpinUnlock(TASKMANAGER_LOCK)
    /\ task_manager' = IF PeerPreempted(s, c) THEN Migrate(c, curr_tid_ref[s])
                       ELSE task_manager
    /\ held' = SetPc(c, tid, "resched")
    /\ UNCHANGED <<exited, pi_stack, resVars, semVars, tasks_mask0, tasks_mask1,
                   lock_ref, curr_tid_ref, ev>>

\* Shared::lock, the end of the loop body: schedule(), whose spinlock on
\* TASKMANAGER_LOCK returns once the lock is free; then back to the loop test.
SharedSpinSchedule(c) ==
    LET tid == task_manager[c].curr_tid IN
    /\ At(c, "resched")
    /\ TmFree
    /\ task_manager' = [task_manager EXCEPT ![c] = Schedule(@)]
    /\ held' = SetPc(c, tid, "cas")
    /\ UNCHANGED <<exited, pi_stack, resVars, semVars, sharedVars, ev>>

\* Shared::lock, after the loop: spinlock(&TASKMANAGER_LOCK) inside the critical
\* section returns once its compare_exchange succeeds.
SharedStoreLock(c) ==
    LET tid == task_manager[c].curr_tid IN
    /\ At(c, "store_lock")
    /\ CasSucceeds(TASKMANAGER_LOCK)
    /\ TASKMANAGER_LOCK' = TRUE
    /\ held' = SetPc(c, tid, "store_tid")
    /\ UNCHANGED <<exited, task_manager, pi_stack, resVars, semVars, tasks_mask0, tasks_mask1,
                   lock_ref, curr_tid_ref, ev>>

\* Shared::lock, under TASKMANAGER_LOCK: record the local curr_tid, spinunlock,
\* return the payload.
SharedStoreTid(c) ==
    LET tid == task_manager[c].curr_tid
        s == Top(c, tid).res IN
    /\ At(c, "store_tid")
    /\ curr_tid_ref' = [curr_tid_ref EXCEPT ![s] = task_manager[c].curr_tid]
    /\ TASKMANAGER_LOCK' = SpinUnlock(TASKMANAGER_LOCK)
    /\ held' = SetPc(c, tid, "handler")
    /\ ev' = Event("shared_lock", c, tid, s, "Ok")
    /\ UNCHANGED <<exited, task_manager, pi_stack, resVars, semVars, tasks_mask0, tasks_mask1,
                   lock_ref>>

\* Shared::unlock, line 85: the handler returned, lock_ref.store(false).
SharedUnlockStore(c) ==
    LET tid == task_manager[c].curr_tid
        s == Top(c, tid).res IN
    /\ At(c, "handler")
    /\ lock_ref' = [lock_ref EXCEPT ![s] = FALSE]
    /\ held' = SetPc(c, tid, "unlock")
    /\ UNCHANGED <<exited, task_manager, pi_stack, resVars, semVars, tasks_mask0, tasks_mask1,
                   curr_tid_ref, TASKMANAGER_LOCK, ev>>

\* Shared::unlock, line 86: self.resource.unlock(), its result dropped.
SharedUnlockResource(c) ==
    LET tid == task_manager[c].curr_tid
        s == Top(c, tid).res IN
    /\ At(c, "unlock")
    /\ UnlockMatches(ViewMask(s, c)) => TmFree
    /\ ResourceUnlock(c, ViewMask(s, c), Top(c, tid).bm)
    /\ ev' = Event("unlock", c, tid, s, UnlockResult(ViewMask(s, c)))
    /\ held' = Pop(c, tid)
    /\ UNCHANGED <<exited, resVars, semVars, sharedVars>>

\* Two cores, each with the idle task and the tasks 1..MaxSharedTask created.
InitMC ==
    /\ InitKernel
    /\ task_manager = [c \in Cores |-> [SchedulerInit EXCEPT !.active_tasks = SharedTasks]]
    /\ tasks_mask = [r \in Res |-> ResourceNewMask({})]
    /\ sem_tasks = [s \in Sems |-> {}]
    /\ tasks_mask0 \in [Shareds -> SUBSET (SharedTasks \ {0})]
    /\ tasks_mask1 \in [Shareds -> SUBSET (SharedTasks \ {0})]
    /\ \A s \in Shareds \ SingleShared : tasks_mask0[s] = {} /\ tasks_mask1[s] = {}

NextMC ==
    \E c \in Cores :
        \/ \E mask \in (SUBSET (SharedTasks \ {0})) \ {{}} : Release(c, mask)
        \/ TaskExit(c)
        \/ \E s \in SingleShared : SharedLockResource(c, s)
        \/ SharedCas(c)
        \/ SharedSpinTry(c)
        \/ SharedSpinBody(c)
        \/ SharedSpinSchedule(c)
        \/ SharedStoreLock(c)
        \/ SharedStoreTid(c)
        \/ SharedUnlockStore(c)
        \/ SharedUnlockResource(c)

SpecMC == InitMC /\ [][NextMC]_vars

\* Two SharedResources with arbitrary task masks on both cores; the task running
\* on each core nests Shared::acquire on them as far as Resource::lock lets it,
\* and nothing is released meanwhile.
InitNestShared ==
    /\ InitKernel
    /\ task_manager = [c \in Cores |-> [SchedulerInit EXCEPT !.active_tasks = SharedTasks]]
    /\ tasks_mask = [r \in Res |-> ResourceNewMask({})]
    /\ sem_tasks = [s \in Sems |-> {}]
    /\ tasks_mask0 \in [Shareds -> SUBSET (SharedTasks \ {0})]
    /\ tasks_mask1 \in [Shareds -> SUBSET (SharedTasks \ {0})]

NextNestShared ==
    \E c \in Cores :
        \/ \E s \in Shareds : SharedLockResource(c, s)
        \/ SharedCas(c)
        \/ SharedSpinTry(c)
        \/ SharedSpinBody(c)
        \/ SharedSpinSchedule(c)
        \/ SharedStoreLock(c)
        \/ SharedStoreTid(c)
        \/ SharedUnlockStore(c)
        \/ SharedUnlockResource(c)

SpecNestShared == InitNestShared /\ [][NextNestShared]_vars

\* The next instruction of the task running on core c inside Shared::lock or
\* Shared::unlock.
SharedStep(c) ==
    \/ SharedCas(c)
    \/ SharedSpinTry(c)
    \/ SharedSpinBody(c)
    \/ SharedSpinSchedule(c)
    \/ SharedStoreLock(c)
    \/ SharedStoreTid(c)
    \/ SharedUnlockStore(c)
    \/ SharedUnlockResource(c)

\* A core keeps executing the task it runs: a call of Shared::lock or
\* Shared::unlock in progress on the running task takes its next step. When
\* tasks are released, exit or call lock is left open.
FairSpecMC == SpecMC /\ \A c \in Cores : WF_vars(SharedStep(c))

\* As FairSpecMC, and a compare_exchange on TASKMANAGER_LOCK that is retried for
\* ever while the lock is free again and again succeeds at some point.
StrongFairSpecMC ==
    /\ SpecMC
    /\ \A c \in Cores :
          /\ WF_vars(SharedStep(c))
          /\ SF_vars(SharedStoreLock(c))
          /\ SF_vars(SharedSpinSchedule(c))

----------------------------------------------------------------------------
(* One core, every kernel call of kernel/tasks.rs, Resource and Semaphore, in *)
(* any order                                                                  *)

DisablePreemptionKeepsFlag(tm) ==
    [tm EXCEPT !.preempt_disable_count = (@ + 1) % CountMod]

\* disable_preemption(): preempt_disable_count += 1; is_preemptive = false.
\* Arithmetic that leaves the counter's range wraps (overflow checks off); in a
\* build with overflow checks the call panics there and the core stops, so its
\* behaviours are the prefixes of the ones modelled.
DisablePreemptionTm(tm) ==
    [tm EXCEPT !.preempt_disable_count = (@ + 1) % CountMod, !.is_preemptive = FALSE]

EnablePreemptionAlways(tm) ==
    [tm EXCEPT !.preempt_disable_count = (@ - 1) % CountMod, !.is_preemptive = TRUE]

\* enable_preemption(): preempt_disable_count -= 1; if it is 0, is_preemptive = true
EnablePreemptionTm(tm) ==
    [tm EXCEPT !.preempt_disable_count = (@ - 1) % CountMod,
               !.is_preemptive = IF (tm.preempt_disable_count - 1) % CountMod = 0
                                 THEN TRUE ELSE @]

DisablePreemption(c) ==
    /\ task_manager' = [task_manager EXCEPT ![c] = DisablePreemptionTm(@)]
    /\ ev' = Event("disable_preemption", c, task_manager[c].curr_tid, "none", "Ok")
    /\ UNCHANGED <<exited, pi_stack, resVars, semVars, sharedVars, held>>

EnablePreemption(c) ==
    /\ task_manager' = [task_manager EXCEPT ![c] = EnablePreemptionTm(@)]
    /\ ev' = Event("enable_preemption", c, task_manager[c].curr_tid, "none", "Ok")
    /\ UNCHANGED <<exited, pi_stack, resVars, semVars, sharedVars, held>>

ScheduleRequestsBoth(is_preemptive, privileged) ==
    IF is_preemptive THEN {"set_pendsv", "svc_call"} ELSE {}

\* schedule(): what it asks of the hardware: preempt() = set_pendsv() from
\* privileged code, svc_call() otherwise, nothing while not is_preemptive.
ScheduleRequests(is_preemptive, privileged) ==
    IF is_preemptive
    THEN (IF privileged THEN {"set_pendsv"} ELSE {"svc_call"})
    ELSE {}

\* schedule() called directly (start_kernel's loop, the SVC handler).
ScheduleCall(c, privileged) ==
    /\ TmFree
    /\ task_manager' = [task_manager EXCEPT ![c] = Schedule(@)]
    /\ ev' = EventArg("schedule", c, task_manager[c].curr_tid, "none", "Ok",
                      ScheduleRequests(task_manager[c].is_preemptive, privileged))
    /\ UNCHANGED <<exited, pi_stack, resVars, semVars, sharedVars, held>>

\* block_tasks(tasks_mask) called directly: no schedule() follows.
BlockTasksCall(c, mask) ==
    /\ TmFree
    /\ task_manager' = [task_manager EXCEPT ![c] = BlockTasks(@, mask)]
    /\ ev' = EventArg("block_tasks", c, task_manager[c].curr_tid, "none", "Ok", mask)
    /\ UNCHANGED <<exited, pi_stack, resVars, semVars, sharedVars, held>>

\* unblock_tasks(tasks_mask) called directly: no schedule() follows.
UnblockTasksCall(c, mask) ==
    /\ TmFree
    /\ task_manager' = [task_manager EXCEPT ![c] = UnblockTasks(@, mask)]
    /\ ev' = EventArg("unblock_tasks", c, task_manager[c].curr_tid, "none", "Ok", mask)
    /\ UNCHANGED <<exited, pi_stack, resVars, semVars, sharedVars, held>>

\* priv_execute!: the block runs in privileged mode, AccessDenied otherwise.
PrivExecute(privileged, ret) == IF privileged THEN ret ELSE "AccessDenied"

\* Scheduler::create_task: the priority is checked, then the active bit.
CreateTaskResult(tm, priority) ==
    IF priority = 0 \/ priority > MaxTask THEN "InvalidTaskPriority"
    ELSE IF priority \in tm.active_tasks THEN "TaskAlreadyExists"
    ELSE "Ok"

CreateTaskTm(tm, priority) ==
    IF CreateTaskResult(tm, priority) = "Ok"
    THEN [tm EXCEPT !.active_tasks = @ \cup {priority}]
    ELSE tm

\* create_task(priority, stack, handler), under priv_execute!
CreateTask(c, priority, privileged) ==
    /\ task_manager' = IF privileged
                       THEN [task_manager EXCEPT ![c] = CreateTaskTm(@, priority)]
                       ELSE task_manager
    /\ ev' = EventArg("create_task", c, task_manager[c].curr_tid, "none",
                      PrivExecute(privileged, CreateTaskResult(task_manager[c], priority)),
                      {priority})
    /\ UNCHANGED <<exited, pi_stack, resVars, semVars, sharedVars, held>>

\* Every user task created; R1 is the resource of tasks 1 and MaxTask, R2 the
\* resource of the tasks between them; the semaphore releases every user task.
InitKernelCalls ==
    /\ InitKernel
    /\ task_manager = [c \in Cores |-> SchedulerInit]
    /\ NoShared
    /\ tasks_mask = [r \in Res |-> IF r = "R1" THEN ResourceNewMask({1, MaxTask})
                                   ELSE ResourceNewMask(UserTasks \ {1, MaxTask})]
    /\ sem_tasks = [s \in Sems |-> UserTasks]

NextKernelCalls ==
    \/ \E t \in UserTasks : Release(0, {t})
    \/ TaskExit(0)
    \/ \E privileged \in BOOLEAN : ScheduleCall(0, privileged)
    \/ BlockTasksCall(0, {MaxTask})
    \/ UnblockTasksCall(0, {MaxTask})
    \/ DisablePreemption(0)
    \/ EnablePreemption(0)
    \/ Acquire(0, "R1")
    \/ HandlerReturn(0)
    \/ \E s \in Sems : SignalAndRelease(0, s, {MaxTask})

SpecKernelCalls == InitKernelCalls /\ [][NextKernelCalls]_vars

----------------------------------------------------------------------------
(* One core, disable_preemption / enable_preemption used as properly nested *)
(* sections, by themselves and around or inside Resource::acquire           *)

\* The disable_preemption sections in progress on core c.
NestDepth(c) ==
    Cardinality({ti \in Tasks \X (1..(MaxNest + MAX_RESOURCES)) :
                    /\ ti[2] \in DOMAIN held[c][ti[1]]
                    /\ held[c][ti[1]][ti[2]].res = "preemption"})

\* disable_preemption() opening a section in the running task.
DisableNested(c) ==
    LET tid == task_manager[c].curr_tid IN
    /\ InUserCode(c)
    /\ NestDepth(c) < MaxNest
    /\ task_manager' = [task_manager EXCEPT ![c] = DisablePreemptionTm(@)]
    /\ held' = Push(c, tid, Frame("preemption", "handler", {}, Snapshot(c)))
    /\ ev' = Event("disable_preemption", c, tid, "none", "Ok")
    /\ UNCHANGED <<exited, pi_stack, resVars, semVars, sharedVars>>

\* enable_preemption() closing the innermost section of the running task.
EnableNested(c) ==
    LET tid == task_manager[c].curr_tid IN
    /\ held[c][tid] # <<>>
    /\ Top(c, tid).res = "preemption"
    /\ task_manager' = [task_manager EXCEPT ![c] = EnablePreemptionTm(@)]
    /\ held' = Pop(c, tid)
    /\ ev' = Event("enable_preemption", c, tid, "none", "Ok")
    /\ UNCHANGED <<exited, pi_stack, resVars, semVars, sharedVars>>

NextNest ==
    \/ \E t \in UserTasks : Release(0, {t})
    \/ TaskExit(0)
    \/ \E privileged \in BOOLEAN : ScheduleCall(0, privileged)
    \/ DisableNested(0)
    \/ EnableNested(0)
    \/ Acquire(0, "R1")
    \/ HandlerReturn(0)

SpecNest == InitKernelCalls /\ [][NextNest]_vars

----------------------------------------------------------------------------
(* kernel/resource.rs: create() and the static ResourceManager *)

ControlBlockSetNoCeiling(mask) == [ rt_ceiling |-> 0, tasks_mask |-> mask ]

\* ResourceControlBlock::set
ControlBlockSet(mask) == [ rt_ceiling |-> Msb(mask), tasks_mask |-> mask ]

\* ResourceManager::create, what it returns: id >= MAX_RESOURCES -> LimitExceeded
ManagerCreateResult(rm) == IF rm.curr >= MAX_RESOURCES THEN "LimitExceeded" ELSE "Ok"

\* ResourceManager::create, the manager after it.
ManagerCreate(rm, mask) ==
    IF ManagerCreateResult(rm) = "Ok"
    THEN [rm EXCEPT !.resources_block[rm.curr] = ControlBlockSet(mask),
                    !.curr = @ + 1]
    ELSE rm

\* create(resource, tasks_mask): bit 0 is added, then ResourceManager::create
\* under priv_execute!. The event keeps the mask passed and, on success, the id
\* of the Resource returned.
CreateResource(c, mask, privileged) ==
    LET ret == PrivExecute(privileged, ManagerCreateResult(resources_list)) IN
    /\ resources_list' = IF privileged
                         THEN ManagerCreate(resources_list, ResourceNewMask(mask))
                         ELSE resources_list
    /\ ev' = EventArg("create", c, task_manager[c].curr_tid,
                      IF ret = "Ok" THEN resources_list.curr ELSE "none", ret, mask)
    /\ UNCHANGED <<exited, task_manager, pi_stack, tasks_mask, blocked_mask, semVars,
                   sharedVars, held>>

NextCreate ==
    \E mask \in SUBSET UserTasks : \E privileged \in BOOLEAN :
        CreateResource(0, mask, privileged)

SpecCreate == InitKernelCalls /\ [][NextCreate]_vars

----------------------------------------------------------------------------
(* One core, from init: tasks are created, released, exit, and may be created *)
(* again                                                                      *)

\* Scheduler after init(true): the idle task only.
SchedulerIdleOnly == [SchedulerInit EXCEPT !.active_tasks = {0}]

InitLifecycle ==
    /\ InitKernel
    /\ task_manager = [c \in Cores |-> SchedulerIdleOnly]
    /\ NoShared
    /\ tasks_mask = [r \in Res |-> ResourceNewMask({})]
    /\ sem_tasks = [s \in Sems |-> UserTasks]

NextLifecycle ==
    \/ \E priority \in 0..(MaxTask + 1) : \E privileged \in BOOLEAN :
          CreateTask(0, priority, privileged)
    \/ \E t \in UserTasks : Release(0, {t})
    \/ TaskExitCall(0)
    \/ BlockTasksCall(0, {MaxTask})
    \/ UnblockTasksCall(0, {MaxTask})
    \/ \E s \in Sems : SignalAndRelease(0, s, {MaxTask})

SpecLifecycle == InitLifecycle /\ [][NextLifecycle]_vars

----------------------------------------------------------------------------
(* Two cores: the Scheduler borrows made without TASKMANAGER_LOCK              *)

\* release(), lines 167-172: the critical section that borrows the core's own
\* Scheduler mutably and sets the released bits; TASKMANAGER_LOCK is not taken.
\* The caller is then at the call of schedule() in line 173.
ReleaseBorrow(c, mask) ==
    LET tid == task_manager[c].curr_tid IN
    /\ InUserCode(c)
    /\ task_manager' = [task_manager EXCEPT ![c] = ReleaseTasks(@, mask)]
    /\ held' = Push(c, tid, Frame("release", "schedule", {}, Snapshot(c)))
    /\ ev' = Event("release", c, tid, "none", "Ok")
    /\ UNCHANGED <<exited, pi_stack, resVars, semVars, sharedVars>>

\* release(), line 173: schedule(), whose spinlock on TASKMANAGER_LOCK returns
\* once the lock is free.
ReleaseSchedule(c) ==
    LET tid == task_manager[c].curr_tid IN
    /\ held[c][tid] # <<>>
    /\ Top(c, tid).res = "release"
    /\ TmFree
    /\ task_manager' = [task_manager EXCEPT ![c] = Schedule(@)]
    /\ held' = Pop(c, tid)
    /\ UNCHANGED <<exited, pi_stack, resVars, semVars, sharedVars, ev>>

\* disable_preemption() called by the running task of core c from its own code,
\* nested at most MaxSharedNest deep.
TaskDisablePreemption(c) ==
    /\ InUserCode(c)
    /\ task_manager[c].preempt_disable_count < MaxSharedNest
    /\ DisablePreemption(c)

\* enable_preemption() called by the running task of core c from its own code,
\* after a disable_preemption().
TaskEnablePreemption(c) ==
    /\ InUserCode(c)
    /\ task_manager[c].preempt_disable_count > 0
    /\ EnablePreemption(c)

\* Two cores and one SharedResource, with release() taken statement by statement
\* and the preemption switches called on both cores.
NextBorrow ==
    \E c \in Cores :
        \/ \E mask \in (SUBSET (SharedTasks \ {0})) \ {{}} : ReleaseBorrow(c, mask)
        \/ ReleaseSchedule(c)
        \/ TaskDisablePreemption(c)
        \/ TaskEnablePreemption(c)
        \/ \E s \in SingleShared : SharedLockResource(c, s)
        \/ SharedCas(c)
        \/ SharedSpinTry(c)
        \/ SharedSpinBody(c)
        \/ SharedSpinSchedule(c)
        \/ SharedStoreLock(c)
        \/ SharedStoreTid(c)
        \/ SharedUnlockStore(c)
        \/ SharedUnlockResource(c)

SpecBorrow == InitMC /\ [][NextBorrow]_vars


----------------------------------------------------------------------------
(* Properties *)

\* The tasks of core c that are inside an acquire handler of resource r.
Holders(c, r) == {t \in Tasks : \E i \in DOMAIN held[c][t] : held[c][t][i].res = r}

\* How many acquire handlers of r task t of core c is inside.
HoldCount(c, t, r) == Cardinality({i \in DOMAIN held[c][t] : held[c][t][i].res = r})

\* C1: on one core, at most one task is between a successful R.lock() and the
\* matching R.unlock(), and that task is inside at most one such section: no
\* second lock() on a held R returns the payload, not even to the holder.
C1_MutualExclusion ==
    \A r \in Res :
        /\ Cardinality(Holders(0, r)) <= 1
        /\ \A t \in Tasks : HoldCount(0, t, r) <= 1

\* R is held by a preempted task, and the task now running was refused R.
C1_Witness ==
    \E r \in Res : \E t \in Holders(0, r) :
        /\ task_manager[0].curr_tid # t
        /\ ev.op = "lock" /\ ev.res = r /\ ev.tid # t /\ ev.ret = "AccessDenied"

\* C4: lock()/acquire() by a task whose bit is not in R.tasks_mask returns
\* AccessDenied, does not start the handler and changes neither the PiStack
\* (stack, system_ceiling), nor the Scheduler (blocked_tasks), nor R.blocked_mask.
C4_NotInMaskDenied ==
    [][ (ev'.op = "lock" /\ ev'.tid \notin tasks_mask[ev'.res])
            => /\ ev'.ret = "AccessDenied"
               /\ UNCHANGED <<pi_stack, task_manager, blocked_mask, held>> ]_vars

\* A task outside the mask was refused while another task holds the resource.
C4_Witness ==
    /\ ev.op = "lock" /\ ev.ret = "AccessDenied"
    /\ ev.tid \notin tasks_mask[ev.res]
    /\ Holders(0, ev.res) # {}

\* C5: lock() by a task of R.tasks_mask while R.ceiling <= system_ceiling returns
\* AccessDenied and leaves PiStack, system_ceiling and blocked_tasks unchanged;
\* lock() returns the payload only when R.ceiling > system_ceiling.
C5_CeilingDenied ==
    [][ /\ (ev'.op = "lock" /\ ev'.tid \in tasks_mask[ev'.res]
              /\ Ceiling(ev'.res) <= pi_stack[ev'.core].system_ceiling)
            => /\ ev'.ret = "AccessDenied"
               /\ UNCHANGED <<pi_stack, task_manager, blocked_mask, held>>
        /\ (ev'.op = "lock" /\ ev'.ret = "Ok")
            => Ceiling(ev'.res) > pi_stack[ev'.core].system_ceiling ]_vars

\* A task of the mask was refused a resource whose ceiling is strictly below the
\* ceiling of the resource it already holds.
C5_Witness ==
    /\ ev.op = "lock" /\ ev.ret = "AccessDenied"
    /\ ev.tid \in tasks_mask[ev.res]
    /\ Ceiling(ev.res) < pi_stack[0].system_ceiling
    /\ held[0][ev.tid] # <<>>

\* No acquire handler is running on core c and nothing is left of any lock.
NoneHeld(c) == \A t \in Tasks : held[c][t] = <<>>

AllFree(c) ==
    /\ NoneHeld(c)
    /\ pi_stack[c] = PiStackNew
    /\ task_manager[c].blocked_tasks = {}

\* C3: with preemption enabled and no resource held, the running task is always
\* the highest-priority released task that has not exited, a lower-priority task
\* becomes curr_tid only in the step in which the running task exits, exited
\* tasks stay exited, and once every released task has exited curr_tid is 0.
C3_PriorityOrder ==
    [][ (NoneHeld(0) /\ NoneHeld(0)' /\ task_manager[0].is_preemptive)
            => /\ task_manager'[0].curr_tid =
                      Msb(task_manager'[0].active_tasks \cap task_manager'[0].released_tasks)
               /\ task_manager'[0].curr_tid < task_manager[0].curr_tid
                      => /\ ev'.op = "task_exit" /\ ev'.tid = task_manager[0].curr_tid
                         /\ task_manager[0].curr_tid \notin task_manager'[0].active_tasks
               /\ task_manager'[0].active_tasks \subseteq task_manager[0].active_tasks
               /\ (task_manager'[0].active_tasks \cap task_manager'[0].released_tasks) \subseteq {0}
                      => task_manager'[0].curr_tid = 0 ]_vars

\* Every user task was released and has exited, task 1 last; the core idles.
C3_Witness ==
    /\ ev.op = "task_exit" /\ ev.tid = 1
    /\ task_manager[0].released_tasks = UserTasks
    /\ task_manager[0].active_tasks = {0}
    /\ task_manager[0].curr_tid = 0
    /\ AllFree(0)

\* C8: no task holds a resource while the core has nothing to run (a holder is
\* never left blocked with the core idle), every lock() call returns at once with
\* the payload or AccessDenied, and with total handlers and ending task bodies
\* every started acquire reaches its unlock: the core comes back to the state
\* with no resource held, system_ceiling at the sentinel and blocked_tasks empty.
C8_DeadlockFree ==
    /\ [](~NoneHeld(0) =>
            (task_manager[0].curr_tid # 0 \/ held[0][0] # <<>>))
    /\ [](\A t \in Tasks : held[0][t] # <<>> /\ t \in task_manager[0].blocked_tasks
            => task_manager[0].curr_tid > t)
    /\ [](ev.op = "lock" => ev.ret \in {"Ok", "AccessDenied"})
    /\ (~NoneHeld(0) ~> AllFree(0))

\* Two resources are held nested by one task, a third task is blocked by them.
C8_Witness ==
    \E t \in Tasks :
        /\ Len(held[0][t]) = 2
        /\ task_manager[0].curr_tid = t
        /\ \E u \in UserTasks \ {t} :
              u \in task_manager[0].blocked_tasks \cap task_manager[0].released_tasks

\* C6: after the unlock() that matches a successful lock(), the system_ceiling and
\* the depth of the PiStack that lock() pushed onto, and the blocked_tasks of the
\* resource's Scheduler, are what they were immediately before that lock(), for a
\* Resource of either core, nested or not.
C6_LockUnlockRoundTrip ==
    [][ ev'.op = "unlock" =>
            LET pre == Top(ev'.core, ev'.tid).pre IN
            /\ pi_stack'[ev'.core].system_ceiling = pre.system_ceiling
            /\ Len(pi_stack'[ev'.core].stack) = pre.depth
            /\ task_manager'[ev'.core].blocked_tasks = pre.blocked_tasks ]_vars

\* C9: while a task holds R, no other task of priority <= R.ceiling is curr_tid.
C9_NoLowerOrEqualRuns ==
    \A r \in Res : \A t \in Holders(0, r) :
        task_manager[0].curr_tid = t \/ task_manager[0].curr_tid > Ceiling(r)

\* C7: unlock() on a resource whose ceiling is not the current system_ceiling
\* returns NotLocked and leaves PiStack, system_ceiling and blocked_tasks unchanged.
C7_UnlockNotLocked ==
    [][ (ev'.op = "unlock" /\ Ceiling(ev'.res) # pi_stack[ev'.core].system_ceiling)
            => /\ ev'.ret = "NotLocked"
               /\ UNCHANGED <<pi_stack, task_manager, blocked_mask>> ]_vars

\* C10: test_and_reset() by task T returns true exactly when a signal_and_release
\* whose mask has T's bit came since T's last test_and_reset(): the first test
\* after one or several signals returns true, the next one false.
C10_SignalTestRoundTrip ==
    [][ ev'.op = "test" =>
            ev'.ret = (IF ev'.tid \in signalled[ev'.res] THEN "true" ELSE "false") ]_vars

\* A user task consumed its flag while the flags of other tasks stay set.
C10_Witness ==
    /\ ev.op = "test" /\ ev.ret = "true" /\ ev.tid \in UserTasks
    /\ ev.tid \notin flags[ev.res]
    /\ flags[ev.res] # {}

\* The (core, task) pairs that won the compare-and-swap on the atomic of shared
\* resource s and have not stored false yet: they hold the payload or are about
\* to receive it.
Owners(s) ==
    {ct \in Cores \X Tasks :
        \E i \in DOMAIN held[ct[1]][ct[2]] :
            /\ held[ct[1]][ct[2]][i].res = s
            /\ held[ct[1]][ct[2]][i].pc \in {"store_lock", "store_tid", "handler"}}

\* The (core, task) pairs that are between a returned Shared::lock() on s and the
\* call of its Shared::unlock().
SharedHolders(s) ==
    {ct \in Cores \X Tasks :
        \E i \in DOMAIN held[ct[1]][ct[2]] :
            /\ held[ct[1]][ct[2]][i].res = s
            /\ held[ct[1]][ct[2]][i].pc = "handler"}

\* C2: over both cores at most one task is between a returned Shared::lock() and
\* its Shared::unlock(), the atomic lock is true exactly while some task has won
\* the compare-and-swap and not yet stored false, and a compare-and-swap succeeds
\* only when no other winner is left.
C2_CrossCoreMutualExclusion ==
    \A s \in Shareds :
        /\ Cardinality(SharedHolders(s)) <= 1
        /\ Cardinality(Owners(s)) <= 1
        /\ lock_ref[s] <=> Owners(s) # {}

\* A task of one core is in the handler while the running task of the other core,
\* having passed its own Resource::lock, failed the compare-and-swap and spins.
C2_Witness ==
    \E s \in Shareds : \E c \in Cores :
        /\ \E t \in Tasks : <<c, t>> \in SharedHolders(s)
        /\ At(OtherCore(c), "spin")
        /\ Top(OtherCore(c), task_manager[OtherCore(c)].curr_tid).res = s
        /\ lock_ref[s]

\* C11: signal_and_release(N) on a semaphore with release mask R adds exactly the
\* tasks of R to released_tasks and exactly the bits of N to flags, whatever N
\* is; test_and_reset() by T returns true exactly when T's bit is in flags and
\* changes no flag bit other than T's.
C11_SemaphoreFanOut ==
    [][ /\ ev'.op = "signal" =>
              /\ task_manager'[ev'.core].released_tasks =
                     task_manager[ev'.core].released_tasks \cup sem_tasks[ev'.res]
              /\ flags'[ev'.res] = flags[ev'.res] \cup ev'.arg
        /\ ev'.op = "test" =>
              /\ (ev'.ret = "true") <=> (ev'.tid \in flags[ev'.res])
              /\ flags'[ev'.res] \ {ev'.tid} = flags[ev'.res] \ {ev'.tid}
              /\ ev'.tid \notin flags'[ev'.res] ]_vars

\* The semaphore released tasks 1..MaxTask and notified one of them only: a
\* released task that was not notified has just tested false while the notified
\* task's flag is still set.
C11_Witness ==
    /\ ev.op = "test" /\ ev.ret = "false"
    /\ sem_tasks[ev.res] = UserTasks
    /\ UserTasks \subseteq task_manager[0].released_tasks
    /\ ev.tid \in UserTasks
    /\ Cardinality(flags[ev.res]) = 1
    /\ flags[ev.res] \subseteq UserTasks \ {ev.tid}

\* C12: after any sequence of enable_preemption() and disable_preemption() calls,
\* balanced or not, preempt_disable_count = 0 exactly when is_preemptive.
C12_PreemptionFlagInvariant ==
    (task_manager[0].preempt_disable_count = 0) <=> task_manager[0].is_preemptive

\* C13: from a preemptive scheduler, along properly nested disable_preemption /
\* enable_preemption calls, preempt_disable_count is the nesting depth and
\* is_preemptive is false exactly while a section is open: it becomes true again
\* only at the enable that matches the outermost disable.
C13_NestingDepth ==
    /\ task_manager[0].preempt_disable_count = NestDepth(0)
    /\ task_manager[0].is_preemptive <=> (NestDepth(0) = 0)

\* disable, disable, enable: one section is still open and preemption is off.
C13_Witness ==
    /\ ev.op = "enable_preemption"
    /\ NestDepth(0) = 1
    /\ ~task_manager[0].is_preemptive

\* curr_tid of core c is the most significant bit of active & ~blocked & released,
\* or 0 when that set is empty.
Selected(tm) == tm.curr_tid = Msb(ReadyTasks(tm))

\* C14 as stated: in every reachable state of a core, after any sequence of kernel
\* calls, curr_tid = msb(active_tasks & ~blocked_tasks & released_tasks), or 0.
C14_SelectionInvariant == Selected(task_manager[0])

\* C14 amended: curr_tid = msb(active & ~blocked & released), or 0, right after
\* every call that ends in schedule() made while is_preemptive is true (release,
\* task_exit, schedule, signal_and_release, an unlock() that pops), and
\* Resource::lock, enable_preemption and disable_preemption keep the equality
\* when it holds.
C14_SelectionAfterSchedule ==
    [][ /\ (/\ ev'.op \in {"release", "task_exit", "schedule", "signal"}
            /\ task_manager[0].is_preemptive)
              => Selected(task_manager'[0])
        /\ (/\ ev'.op = "unlock"
            /\ pi_stack'[0] # pi_stack[0]
            /\ task_manager[0].is_preemptive)
              => Selected(task_manager'[0])
        /\ (/\ ev'.op \in {"lock", "enable_preemption", "disable_preemption"}
            /\ Selected(task_manager[0]))
              => Selected(task_manager'[0]) ]_vars

\* A schedule() call made while is_preemptive switched to a higher task that
\* was released while preemption was disabled.
C14_Witness ==
    /\ ev.op = "schedule"
    /\ task_manager[0].curr_tid > ev.tid
    /\ task_manager[0].is_preemptive
    /\ Selected(task_manager[0])

\* The tasks_mask of the Resource locked by frame f on core c.
FrameMask(c, f) == IF f.res \in Shareds THEN ViewMask(f.res, c) ELSE tasks_mask[f.res]

\* The Resources locked on core c and not yet unlocked, as (task, position) pairs.
LockedFrames(c) ==
    {p \in Tasks \X (1..(MaxNest + MAX_RESOURCES)) :
        /\ p[2] \in DOMAIN held[c][p[1]]
        /\ held[c][p[1]][p[2]].res \in Res \cup Shareds}

\* C15: on each core, system_ceiling >= R.ceiling for every resource R locked on
\* that core and not yet unlocked, whatever the other core does, and
\* system_ceiling is the empty sentinel -1 when no resource is locked on the core.
C15_CeilingInvariant ==
    \A c \in Cores :
        /\ \A p \in LockedFrames(c) :
              pi_stack[c].system_ceiling >= CeilingOf(FrameMask(c, held[c][p[1]][p[2]]))
        /\ LockedFrames(c) = {} => pi_stack[c].system_ceiling = PiStackNew.system_ceiling

\* How many entries of the resource table hold a created resource.
Created(rm) == {i \in DOMAIN rm.resources_block : i < rm.curr}

SpinIteration(c) ==
    /\ At(c, "migrate")
    /\ held'[c][task_manager[c].curr_tid] # <<>>
    /\ held'[c][task_manager[c].curr_tid][Len(held[c][task_manager[c].curr_tid])].pc = "resched"

\* The tasks_mask of SharedResource s for the core other than c.
OtherCoreMask(s, c) == IF c = 0 THEN tasks_mask1[s] ELSE tasks_mask0[s]

\* C18: a spin iteration of Shared::lock on core c that obtains TASKMANAGER_LOCK
\* records the holder in migrated_tid of c and migrated_tasks of the other core
\* if and only if the other core's curr_tid is not in the other core's
\* tasks_mask of the resource (tasks_mask1 for c = 0, tasks_mask0 for c = 1);
\* otherwise migrated_tasks and migrated_tid stay as they are.
C18_MigrationTrigger ==
    [][ \A c \in Cores :
          SpinIteration(c) =>
            LET s == Top(c, task_manager[c].curr_tid).res
                o == OtherCore(c) IN
            IF task_manager[o].curr_tid \notin OtherCoreMask(s, c)
            THEN /\ task_manager'[c].migrated_tid = curr_tid_ref[s]
                 /\ task_manager'[o].migrated_tasks
                       = task_manager[o].migrated_tasks \cup {curr_tid_ref[s]}
            ELSE /\ task_manager'[c].migrated_tid = task_manager[c].migrated_tid
                 /\ task_manager'[o].migrated_tasks = task_manager[o].migrated_tasks ]_vars

\* Task h of core 0 holds s (its lock() has returned) and has been preempted by
\* a core-0 task outside tasks_mask0, while the task running on core 1 spins in
\* the loop of core1().lock().
MigrationScenario(s, h) ==
    /\ held[0][h] # <<>>
    /\ Top(0, h).res = s
    /\ Top(0, h).pc = "handler"
    /\ task_manager[0].curr_tid # h
    /\ task_manager[0].curr_tid \notin tasks_mask0[s]
    /\ \E pc \in {"cas", "spin", "migrate", "resched"} : At(1, pc)
    /\ Top(1, task_manager[1].curr_tid).res = s

\* Core 1 has recorded the migration of task h of core 0.
MigrationRecorded(h) ==
    /\ task_manager[1].migrated_tid = h
    /\ h \in task_manager[0].migrated_tasks

\* C17: when the holder of S on core 0 has been preempted by a core-0 task that
\* is not in tasks_mask0 while a core-1 task spins in core1().lock(), then, for
\* as long as that lasts, core 1 eventually has migrated_tid = the holder's tid
\* and core 0 has the holder's bit in migrated_tasks.
C17_MigrationEventually ==
    \A s \in Shareds : \A h \in SharedTasks :
        MigrationScenario(s, h) ~> (MigrationRecorded(h) \/ ~MigrationScenario(s, h))

\* The kernel calls that end in schedule(), and schedule() itself.
SchedulingCalls == {"schedule", "release", "task_exit", "unlock", "signal"}

\* C19: while is_preemptive is false a schedule() call, direct or made through
\* release, task_exit, unlock or signal_and_release, requests no context switch
\* and leaves curr_tid as it is; while is_preemptive is true a schedule() call
\* requests exactly one of set_pendsv (privileged) and svc_call (unprivileged).
C19_ScheduleGating ==
    [][ ev'.op \in SchedulingCalls =>
          /\ ~task_manager[0].is_preemptive =>
                /\ task_manager'[0].curr_tid = task_manager[0].curr_tid
                /\ ev'.op = "schedule" => ev'.arg = {}
          /\ (task_manager[0].is_preemptive /\ ev'.op = "schedule") =>
                /\ Cardinality(ev'.arg) = 1
                /\ ev'.arg \subseteq {"set_pendsv", "svc_call"} ]_vars

\* A release made while preemption is disabled: a higher task is ready and the
\* caller still runs.
C19_Witness ==
    /\ ev.op = "release"
    /\ ~task_manager[0].is_preemptive
    /\ Msb(ReadyTasks(task_manager[0])) > task_manager[0].curr_tid
    /\ task_manager[0].curr_tid = ev.tid

\* C20: task_exit clears the active_tasks bit of curr_tid and no other bit of
\* active_tasks, blocked_tasks or released_tasks; a task that has exited never
\* has its active_tasks bit set again and is never selected as curr_tid again,
\* whatever release, create_task, unblock_tasks or signal_and_release follow;
\* bit 0 stays set in active_tasks.
C20_ExitOneWay ==
    [][ /\ ev'.op = "task_exit" =>
              /\ task_manager'[0].active_tasks = task_manager[0].active_tasks \ {ev'.tid}
              /\ task_manager'[0].blocked_tasks = task_manager[0].blocked_tasks
              /\ task_manager'[0].released_tasks = task_manager[0].released_tasks
        /\ exited'[0] \cap task_manager'[0].active_tasks = {}
        /\ task_manager'[0].curr_tid \in exited[0]
              => task_manager'[0].curr_tid = task_manager[0].curr_tid
        /\ 0 \in task_manager'[0].active_tasks ]_vars

\* Core c is between a successful compare_exchange on TASKMANAGER_LOCK and its
\* spinunlock, inside Shared::lock.
HoldsTaskManagerLock(c) == At(c, "migrate") \/ At(c, "store_tid")

\* The step is taken by core c inside one of its Shared::lock calls.
SharedLockStepOf(c) == held'[c] # held[c]

\* C21: at most one core holds TASKMANAGER_LOCK at a time, and every step that
\* reads the peer Scheduler's curr_tid, reads or writes the SharedResource's
\* stored curr_tid, or writes migrated_tasks / migrated_tid is taken by a core
\* that holds TASKMANAGER_LOCK.
C21_TaskManagerLockDiscipline ==
    [][ /\ ~(HoldsTaskManagerLock(0) /\ HoldsTaskManagerLock(1))
        /\ TASKMANAGER_LOCK <=> \E c \in Cores : HoldsTaskManagerLock(c)
        /\ \A c \in Cores :
              (\/ SpinIteration(c)
               \/ (/\ SharedLockStepOf(c)
                   /\ \/ curr_tid_ref' # curr_tid_ref
                      \/ \E o \in Cores :
                            \/ task_manager'[o].migrated_tid # task_manager[o].migrated_tid
                            \/ task_manager'[o].migrated_tasks # task_manager[o].migrated_tasks))
              => /\ TASKMANAGER_LOCK
                 /\ HoldsTaskManagerLock(c)
                 /\ ~HoldsTaskManagerLock(OtherCore(c))
        /\ (\/ curr_tid_ref' # curr_tid_ref
            \/ \E o \in Cores :
                  \/ task_manager'[o].migrated_tid # task_manager[o].migrated_tid
                  \/ task_manager'[o].migrated_tasks # task_manager[o].migrated_tasks)
              => \E c \in Cores : SharedLockStepOf(c) /\ HoldsTaskManagerLock(c) ]_vars

\* Core 1 holds TASKMANAGER_LOCK in its spin iteration and has recorded a
\* migration before, while core 0, having won the compare-and-swap, waits for
\* TASKMANAGER_LOCK to store its tid.
C21_Witness ==
    /\ At(1, "migrate")
    /\ At(0, "store_lock")
    /\ TASKMANAGER_LOCK
    /\ task_manager[0].migrated_tasks # {}

\* The running task of core c is in a blocking spinlock(&TASKMANAGER_LOCK) of
\* Shared::lock: before the store of its tid, or in the schedule() of the loop.
WaitsForTaskManagerLock(c) == At(c, "store_lock") \/ At(c, "resched")

\* The step is a kernel call of core c that takes TASKMANAGER_LOCK with a
\* blocking spin: schedule, block_tasks, unblock_tasks or task_exit, called
\* directly or through release, Resource::lock, Resource::unlock.
TakesTaskManagerLock(c) ==
    \/ /\ ev' # ev
       /\ ev'.core = c
       /\ ev'.op \in {"release", "task_exit", "lock", "unlock"}
       /\ task_manager' # task_manager
    \/ /\ At(c, "resched")
       /\ SharedLockStepOf(c)

\* C22: no core tries the compare-and-swap on a SharedResource's lock while it
\* holds TASKMANAGER_LOCK, and no core calls schedule, block_tasks,
\* unblock_tasks or task_exit while it holds TASKMANAGER_LOCK; every holder of
\* TASKMANAGER_LOCK releases it, and every blocking spinlock on it succeeds.
C22_LockOrder ==
    /\ [][ \A c \in Cores :
             /\ (At(c, "cas") /\ SharedLockStepOf(c)) =>
                   /\ ~HoldsTaskManagerLock(c)
                   /\ TASKMANAGER_LOCK => HoldsTaskManagerLock(OtherCore(c))
             /\ TakesTaskManagerLock(c) =>
                   /\ ~HoldsTaskManagerLock(c)
                   /\ ~TASKMANAGER_LOCK ]_vars
    /\ \A c \in Cores : HoldsTaskManagerLock(c) ~> ~HoldsTaskManagerLock(c)
    /\ \A c \in Cores : WaitsForTaskManagerLock(c) ~> ~WaitsForTaskManagerLock(c)

\* The running task of core c has lost the compare-and-swap of Shared::lock at
\* least once and is in the loop.
SpinsInSharedLock(c) == At(c, "spin") \/ At(c, "migrate") \/ At(c, "resched")

\* The running task of core c is inside Shared::lock, before its return.
InSharedLock(c) ==
    \E pc \in {"cas", "spin", "migrate", "resched", "store_lock", "store_tid"} : At(c, pc)

\* The step is the return of Shared::lock on core c with the payload.
SharedLockReturns(c) == At(c, "store_tid") /\ SharedLockStepOf(c)

\* The step is the end of Shared::unlock on core c: self.resource.unlock().
SharedUnlockReturns(c) == At(c, "unlock") /\ SharedLockStepOf(c)

\* C23: with one SharedResource and both cores taking steps, a task spinning in
\* Shared::lock wins the compare-and-swap and returns from lock() if the holder
\* unlocks; the return of lock() has stored the caller's curr_tid as the holder
\* tid and yields the payload; Shared::unlock first gives up the atomic lock,
\* then unlocks the local Resource, which is back in its state before lock().
C23_SharedLockProgress ==
    /\ \A c \in Cores :
          SpinsInSharedLock(c) ~>
              (At(c, "handler") \/ ~InSharedLock(c) \/ [](\A s \in Shareds : lock_ref[s]))
    /\ [][ \A c \in Cores :
             LET tid == task_manager[c].curr_tid IN
             /\ SharedLockReturns(c) =>
                   /\ curr_tid_ref'[Top(c, tid).res] = tid
                   /\ ev' = Event("shared_lock", c, tid, Top(c, tid).res, "Ok")
             /\ SharedUnlockReturns(c) =>
                   /\ <<c, tid>> \notin Owners(Top(c, tid).res)
                   /\ pi_stack'[c].system_ceiling = Top(c, tid).pre.system_ceiling
                   /\ Len(pi_stack'[c].stack) = Top(c, tid).pre.depth
                   /\ task_manager'[c].blocked_tasks = Top(c, tid).pre.blocked_tasks ]_vars

\* The step is a spin iteration of core c that performs the migration: it reads
\* the stored curr_tid of the SharedResource and writes it into migrated_tasks of
\* the other core and migrated_tid of c.
MigrationStep(c) ==
    /\ SpinIteration(c)
    /\ PeerPreempted(Top(c, task_manager[c].curr_tid).res, c)

\* C24: the tid a migration step reads from the SharedResource's stored curr_tid
\* is the tid of the task of the other core that holds the atomic lock at that
\* moment (it won the compare-and-swap and has not stored false since).
C24_MigrationNamesHolder ==
    [][ \A c \in Cores :
            MigrationStep(c) =>
                LET s == Top(c, task_manager[c].curr_tid).res IN
                <<OtherCore(c), curr_tid_ref[s]>> \in Owners(s) ]_vars

\* Task t of core c is in the compare-and-swap loop of Shared::lock on s.
SpinsOn(c, t, s) ==
    /\ held[c][t] # <<>>
    /\ Top(c, t).res = s
    /\ Top(c, t).pc \in {"cas", "spin", "migrate", "resched"}

\* A task of core 0 and a task of core 1 each spin in Shared::lock on a
\* SharedResource whose atomic lock the other one holds: neither call returns.
CrossCoreDeadlock ==
    \E t0 \in Tasks, t1 \in Tasks : \E s \in Shareds, s2 \in Shareds :
        /\ SpinsOn(0, t0, s)
        /\ <<1, t1>> \in Owners(s)
        /\ SpinsOn(1, t1, s2)
        /\ <<0, t0>> \in Owners(s2)

\* C25: with two SharedResources nested by a task of each core, no reachable
\* state has both cores spinning in Shared::lock for ever, each waiting for the
\* atomic lock held by the spinning task of the other core.
C25_NoCrossCoreDeadlock == ~CrossCoreDeadlock

\* Core c is inside the loop body of Shared::lock under TASKMANAGER_LOCK, where
\* it borrows the Scheduler of the other core: shared to read curr_tid, mutably
\* to set migrated_tasks.
BorrowsPeerScheduler(c) == At(c, "migrate")

\* The step is a call by core c that borrows the core's own Scheduler without
\* taking TASKMANAGER_LOCK: the borrow_mut of release, enable_preemption and
\* disable_preemption, the get_curr_tid of Resource::lock.
BorrowsOwnSchedulerUnlocked(c) ==
    /\ ev' # ev
    /\ ev'.core = c
    /\ ev'.op \in {"release", "enable_preemption", "disable_preemption", "lock"}

\* C26: no core borrows its own Scheduler, in a call that does not take
\* TASKMANAGER_LOCK, while the other core holds a borrow of that Scheduler in
\* the migration step of Shared::lock: the two borrows of one Scheduler never
\* overlap.
C26_NoSchedulerRace ==
    [][ \A c \in Cores :
            BorrowsOwnSchedulerUnlocked(c) => ~BorrowsPeerScheduler(OtherCore(c)) ]_vars

====
